---- MODULE Spec2Model ----
(***************************************************************************)
(* Order / coupon workflow of the digital-commerce backend.                *)
(*                                                                         *)
(* Money.  Every money column is numeric(10,2); the model keeps such a     *)
(* column as an integer number of cents.  The handlers compute in          *)
(* JavaScript numbers and hand the result to the column as a string; the   *)
(* column rounds it to two places.  The model computes the intermediate    *)
(* values exactly, in thousandths of a cent ("milli"), and rounds half     *)
(* away from zero when a value is stored.  discount_value is kept in       *)
(* hundredths (20% is 2000, $5.00 is 500).                                 *)
(*                                                                         *)
(* Time.  The clock does not advance; expires_at is kept relative to Now.  *)
(***************************************************************************)
EXTENDS Integers, Sequences, FiniteSets, TLC

\* ------------------------------------------------------------------ bounds
MaxOrders == 2      \* rows the orders table may hold
MaxQty == 2         \* largest total quantity of an order
MaxItems == 2       \* largest number of lines of an order
InitStock == 2      \* stock_quantity of every product at the start
MaxStock == 3       \* refunds stop once they would lift a stock above this
MaxCoupons == 2
MaxCartRows == 3
MaxUses == 2        \* applyCoupon stops once a coupon's used_count is this

\* ------------------------------------------------------- program constants
TaxRatePercent == 10    \* const taxRate = 0.10
Now == 0                \* new Date()
LicenseDays == 30       \* download_expires_at = now + 30 days

\* A nullable column or field holds NULL or Some(v); Val gives v back.
NULL == <<>>
Some(v) == <<v>>
Val(x) == x[1]
\* An optional input field is UNSET (undefined) or Given(x), x the field's value.
UNSET == [given |-> FALSE]
Given(x) == [given |-> TRUE, v |-> x]
\* thousandths of a cent per cent: the unit of the exact intermediate amounts
Milli == 10 * 100

\* ----------------------------------------------------------------- catalog
\* usersTable: users 1 and 3 exist; any other id is unknown.
UserIds == {1, 3}
\* users.is_active: user 3 is deactivated
UserIsActive(u) == u = 1
\* productsTable: products 1 and 2 are active, product 3 is inactive; id 4
\* names no row.
ProductIds == {1, 2, 3}
IsActive(p) == p \in {1, 2}
\* products.price, in cents
Price(p) == CASE p = 1 -> 2500 [] p = 2 -> 4999 [] OTHER -> 500

Statuses == {"pending", "paid", "completed", "cancelled", "refunded"}
Codes == {"SAVE"}

VARIABLES
    stock,        \* productsTable.stock_quantity, by product id
    coupons,      \* couponsTable: coupon id -> row
    couponSeq,    \* last value of the coupons id sequence
    orders,       \* ordersTable: row i has id i
    orderItems,   \* orderItemsTable: row i has id i
    applied,      \* history: coupon id -> its successful applications so far
    cartItems,    \* cartItemsTable: cart item id -> row
    cartSeq,      \* last value of the cart_items id sequence
    ret,          \* the call that finished last and whether it succeeded
    proc          \* the calls in flight, one per worker

vars == <<stock, coupons, couponSeq, orders, orderItems, applied, cartItems, cartSeq,
          ret, proc>>
\* the tables
db == <<stock, coupons, couponSeq, orders, orderItems>>
cart == <<cartItems, cartSeq>>

Workers == {1, 2}
Idle == [pc |-> "idle"]

\* ---------------------------------------------------------------- helpers
Min(a, b) == IF a <= b THEN a ELSE b

\* numeric(10,2): a value in milli rounded to cents, half away from zero
Round2(x) == IF x >= 0 THEN (x + Milli \div 2) \div Milli
                       ELSE -(((-x) + Milli \div 2) \div Milli)

\* JavaScript !x for a nullable number
Falsy(x) == x = NULL \/ Val(x) = 0

RECURSIVE SumSeq(_)
SumSeq(s) == IF s = <<>> THEN 0 ELSE Head(s) + SumSeq(Tail(s))

\* --------------------------------------------------------------- createOrder
\* the rows of "select from products where is_active and id in (ids)",
\* as product id -> stock_quantity
SelectProducts(items, stk) ==
    [p \in {q \in ProductIds : IsActive(q) /\ \E i \in DOMAIN items : items[i].product_id = q}
        |-> stk[p]]

\* a faulty ValidateOrder, without the stock check
ValidateOrderAnyQuantity(input, products) ==
    IF input.user_id \notin UserIds THEN "User not found"
    ELSE IF Cardinality(DOMAIN products) # Len(input.items)
        THEN "One or more products not found or inactive"
    ELSE "ok"

\* the checks of createOrder before it prices the order
ValidateOrder(input, products) ==
    IF input.user_id \notin UserIds THEN "User not found"
    ELSE IF Cardinality(DOMAIN products) # Len(input.items)
        THEN "One or more products not found or inactive"
    ELSE IF \E i \in DOMAIN input.items :
               /\ input.items[i].product_id \in DOMAIN products
               /\ products[input.items[i].product_id] < input.items[i].quantity
        THEN "Insufficient stock"
    ELSE "ok"

LineTotal(products, item) ==
    IF item.product_id \in DOMAIN products
        THEN Price(item.product_id) * item.quantity ELSE 0

\* subtotal, in cents
Subtotal(items, products) ==
    SumSeq([i \in DOMAIN items |-> LineTotal(products, items[i])])

\* "select from coupons where code = ? and is_active limit 1": the id or NULL
SelectActiveCoupon(code, cps) ==
    IF code # NULL /\ \E c \in DOMAIN cps : cps[c].code = Val(code) /\ cps[c].is_active
        THEN Some(CHOOSE c \in DOMAIN cps : cps[c].code = Val(code) /\ cps[c].is_active)
        ELSE NULL

NotExpiredForOrder(c) == c.expires_at = NULL \/ Val(c.expires_at) > Now
UsageLeftForOrder(c) == Falsy(c.usage_limit) \/ c.used_count < Val(c.usage_limit)
MinimumMetForOrder(c, subtotal) ==
    c.minimum_order = NULL \/ subtotal >= Val(c.minimum_order)

CouponApplies(c, subtotal) ==
    NotExpiredForOrder(c) /\ UsageLeftForOrder(c) /\ MinimumMetForOrder(c, subtotal)

\* discountAmount of createOrder, in milli; subtotal in cents
OrderDiscount(c, subtotal) ==
    IF c.discount_type = "percentage"
        THEN (subtotal * c.discount_value) \div 10
        ELSE Min(c.discount_value, subtotal) * Milli

\* the pricing of createOrder: the coupon id it applies (or NULL) and the
\* amounts it computes, in milli
PriceOrder(input, products, cps) ==
    LET subtotal == Subtotal(input.items, products)
        cid == SelectActiveCoupon(input.coupon_code, cps)
        applies == cid # NULL /\ CouponApplies(cps[Val(cid)], subtotal)
        discount == IF applies THEN OrderDiscount(cps[Val(cid)], subtotal) ELSE 0
        taxable == subtotal * Milli - discount
        tax == (taxable * TaxRatePercent) \div 100
    IN  [ coupon_id |-> IF applies THEN cid ELSE NULL,
          subtotal |-> subtotal * Milli,
          discount |-> discount,
          tax |-> tax,
          total |-> subtotal * Milli + tax - discount ]

\* `ORD-${year}-${Date.now().toString().slice(-6)}` for a call at millisecond
\* t: the last six digits of t (the year is the same for every call here)
OrderNumber(t) == t % 1000000

\* the clock of a call at a millisecond whose last six digits no earlier
\* order's call had
FreshTime == Len(orders) + 1

NewOrderRow(input, p, t) ==
    [ user_id |-> input.user_id,
      order_number |-> OrderNumber(t),
      status |-> "pending",
      subtotal |-> Round2(p.subtotal),
      tax_amount |-> Round2(p.tax),
      discount_amount |-> Round2(p.discount),
      total_amount |-> Round2(p.total),
      coupon_id |-> p.coupon_id,
      payment_method |-> NULL,
      payment_reference |-> NULL ]

\* a faulty NewItemRow, which takes unit_price from the request
NewItemRowAsRequested(orderId, item) ==
    [ order_id |-> orderId,
      product_id |-> item.product_id,
      quantity |-> item.quantity,
      unit_price |-> item.price,
      total_price |-> item.price * item.quantity,
      license_key |-> NULL,
      download_expires_at |-> NULL ]

NewItemRow(orderId, item) ==
    [ order_id |-> orderId,
      product_id |-> item.product_id,
      quantity |-> item.quantity,
      unit_price |-> Price(item.product_id),
      total_price |-> Price(item.product_id) * item.quantity,
      license_key |-> NULL,
      download_expires_at |-> NULL ]

\* what createOrder's transaction writes, from the values the call read
\* earlier: products is its snapshot of the product rows, p its pricing,
\* usedRead the used_count its select inside the transaction returned
CommitOrder(input, products, p, usedRead, t) ==
    LET orderId == Len(orders) + 1 IN
    /\ orders' = Append(orders, NewOrderRow(input, p, t))
    /\ orderItems' = orderItems \o [i \in DOMAIN input.items |-> NewItemRow(orderId, input.items[i])]
    /\ coupons' = IF p.coupon_id # NULL
                    THEN [coupons EXCEPT ![Val(p.coupon_id)].used_count = usedRead + 1]
                    ELSE coupons
    /\ stock' = [q \in ProductIds |->
                    IF \E i \in DOMAIN input.items : input.items[i].product_id = q
                        THEN LET i == CHOOSE j \in DOMAIN input.items : input.items[j].product_id = q
                             IN  products[q] - input.items[i].quantity
                        ELSE stock[q]]
    /\ UNCHANGED <<couponSeq>>

\* a call returning: ok is FALSE when it throws, returns null or returns
\* success = false, and error is then the message (or "null")
Return(op, ok, error) == ret' = [op |-> op, ok |-> ok, error |-> error]
StorageError == "storage error"
Quiet == proc = [w \in DOMAIN proc |-> Idle]

\* the history of applications, after coupon cid (or NULL) was applied once more
Applied(cid) ==
    IF cid = NULL THEN applied
    ELSE [c \in DOMAIN applied \cup {Val(cid)} |->
            IF c = Val(cid) THEN (IF c \in DOMAIN applied THEN applied[c] ELSE 0) + 1
            ELSE applied[c]]

\* orders_order_number_idx: the insert of a row with this number fails
NumberTaken(number, ords) == \E o \in DOMAIN ords : ords[o].order_number = number
UniqueViolation == "duplicate key value violates unique constraint"

\* createOrder at millisecond t, run from start to end with no other call
\* in between
createOrderAt(input, t) ==
    LET products == SelectProducts(input.items, stock)
        v == ValidateOrder(input, products)
        p == PriceOrder(input, products, coupons)
    IN  /\ Quiet
        /\ IF v # "ok"
             THEN /\ Return("createOrder", FALSE, v)
                  /\ UNCHANGED <<db, applied, cart>>
             ELSE IF NumberTaken(OrderNumber(t), orders)
             THEN \* the insert fails: rollback, rethrow; there is no retry
                  /\ Return("createOrder", FALSE, UniqueViolation)
                  /\ UNCHANGED <<db, applied, cart>>
             ELSE \/ /\ Len(orders) < MaxOrders
                     /\ CommitOrder(input, products, p,
                            IF p.coupon_id = NULL THEN 0
                            ELSE coupons[Val(p.coupon_id)].used_count, t)
                     /\ applied' = Applied(p.coupon_id) /\ UNCHANGED cart
                     /\ Return("createOrder", TRUE, "")
                  \/ \* a statement of the transaction fails: rollback, rethrow
                     /\ Return("createOrder", FALSE, StorageError)
                     /\ UNCHANGED <<db, applied, cart>>
        /\ UNCHANGED proc

\* createOrder at a millisecond of its own
createOrder(input) == createOrderAt(input, FreshTime)

\* -------------------------------------------------------------- coupons
CodeTaken(code, cps) == \E c \in DOMAIN cps : cps[c].code = code

\* the error createCoupon throws for this input, or "ok"
ValidateNewCoupon(input, cps) ==
    IF CodeTaken(input.code, cps) THEN "Coupon code already exists"
    ELSE IF input.discount_type = "percentage" /\ input.discount_value > 100 * 100
        THEN "Percentage discount cannot exceed 100%"
    ELSE IF input.discount_value <= 0 THEN "Discount value must be greater than 0"
    ELSE "ok"

NewCouponRow(input) ==
    [ code |-> input.code,
      discount_type |-> input.discount_type,
      discount_value |-> input.discount_value,
      minimum_order |-> IF Falsy(input.minimum_order) THEN NULL ELSE input.minimum_order,
      usage_limit |-> input.usage_limit,
      used_count |-> 0,
      expires_at |-> input.expires_at,
      is_active |-> TRUE ]

createCoupon(input) ==
    LET v == ValidateNewCoupon(input, coupons) IN
    /\ Quiet
    /\ IF v # "ok"
         THEN /\ Return("createCoupon", FALSE, v)
              /\ UNCHANGED <<db, applied, cart>>
         ELSE /\ couponSeq' = couponSeq + 1
              /\ coupons' = [c \in DOMAIN coupons \cup {couponSeq + 1} |->
                                IF c = couponSeq + 1 THEN NewCouponRow(input) ELSE coupons[c]]
              /\ Return("createCoupon", TRUE, "")
              /\ UNCHANGED <<stock, orders, orderItems, applied, cart>>
    /\ UNCHANGED proc

\* the error updateCoupon throws for this input, or "ok"
ValidateCouponUpdate(input, cps) ==
    IF input.code.given /\ \E c \in DOMAIN cps : cps[c].code = input.code.v /\ c # input.id
        THEN "Coupon code already exists"
    ELSE IF input.discount_value.given /\ input.discount_type = Given("percentage")
            /\ input.discount_value.v > 100 * 100
        THEN "Percentage discount cannot exceed 100%"
    ELSE IF input.discount_value.given /\ input.discount_value.v <= 0
        THEN "Discount value must be greater than 0"
    ELSE "ok"

Upd(new, old) == IF new.given THEN new.v ELSE old

\* updateData applied to the row
UpdatedCouponRow(row, input) ==
    [ code |-> Upd(input.code, row.code),
      discount_type |-> Upd(input.discount_type, row.discount_type),
      discount_value |-> Upd(input.discount_value, row.discount_value),
      minimum_order |-> IF ~input.minimum_order.given THEN row.minimum_order
                        ELSE IF Falsy(input.minimum_order.v) THEN NULL
                        ELSE input.minimum_order.v,
      usage_limit |-> Upd(input.usage_limit, row.usage_limit),
      used_count |-> row.used_count,
      expires_at |-> Upd(input.expires_at, row.expires_at),
      is_active |-> Upd(input.is_active, row.is_active) ]

updateCoupon(input) ==
    /\ Quiet
    /\ IF input.id \notin DOMAIN coupons
         THEN /\ Return("updateCoupon", FALSE, "null")
              /\ UNCHANGED <<db, applied, cart>>
         ELSE LET v == ValidateCouponUpdate(input, coupons) IN
              IF v # "ok"
                THEN /\ Return("updateCoupon", FALSE, v)
                     /\ UNCHANGED <<db, applied, cart>>
                ELSE /\ coupons' = [coupons EXCEPT ![input.id] = UpdatedCouponRow(@, input)]
                     /\ Return("updateCoupon", TRUE, "")
                     /\ UNCHANGED <<stock, couponSeq, orders, orderItems, applied, cart>>
    /\ UNCHANGED proc

\* ------------------------------------------------------- generateLicenseKeys
\* a faulty NeedKey, which selects every row of the order
NeedKeyOrNot(items, orderId) ==
    {i \in DOMAIN items : items[i].order_id = orderId}

\* the order_items rows of an order that have no license key yet
NeedKey(items, orderId) ==
    {i \in DOMAIN items : items[i].order_id = orderId /\ items[i].license_key = NULL}

\* crypto.randomUUID(): a key no row holds.  Keys matter only up to
\* renaming, so the k-th key a call generates is the k-th least number that
\* is no row's license key.
FreshKey(items, k) ==
    LET used == {Val(items[i].license_key) :
                    i \in {j \in DOMAIN items : items[j].license_key # NULL}}
        free == (1..(Len(items) + k)) \ used
    IN  CHOOSE n \in free : Cardinality({m \in free : m < n}) = k - 1

\* the rows after generateLicenseKeys wrote the rows `need`, which it read
\* as having no key
WriteLicenseKeys(items, need) ==
    [i \in DOMAIN items |->
        IF i \in need
            THEN [items[i] EXCEPT
                    !.license_key = Some(FreshKey(items, Cardinality({j \in need : j <= i}))),
                    !.download_expires_at = Some(Now + LicenseDays)]
            ELSE items[i]]

WithLicenseKeys(items, orderId) == WriteLicenseKeys(items, NeedKey(items, orderId))

\* what a generateLicenseKeys call can leave and return.  It returns true
\* after it wrote every row it selected.  Its statements are in no
\* transaction: when its select or one of its updates fails, the catch
\* returns false, and the rows updated before are written.  The select has
\* no ORDER BY, so these can be any of the selected rows but not all.
KeyOutcomes(items, orderId) ==
    LET need == NeedKey(items, orderId) IN
    {[items |-> WithLicenseKeys(items, orderId), ok |-> TRUE]}
    \cup {[items |-> WriteLicenseKeys(items, done), ok |-> FALSE] :
            done \in {d \in SUBSET need : d # need \/ need = {}}}

generateLicenseKeys(orderId) ==
    /\ Quiet
    /\ \E r \in KeyOutcomes(orderItems, orderId) :
          /\ orderItems' = r.items
          /\ Return("generateLicenseKeys", r.ok, IF r.ok THEN "" ELSE StorageError)
    /\ UNCHANGED <<stock, coupons, couponSeq, orders, applied, cart, proc>>

\* -------------------------------------------------------------- deleteCoupon
\* a faulty Referenced, which finds no order
ReferencedNever(id, ords) == FALSE

\* "select from orders where coupon_id = ? limit 1" returns a row
Referenced(id, ords) == \E o \in DOMAIN ords : ords[o].coupon_id = Some(id)

\* coupons after "delete from coupons where id = ?"
WithoutCoupon(cps, id) == [c \in DOMAIN cps \ {id} |-> cps[c]]

deleteCoupon(id) ==
    /\ Quiet
    /\ IF id \notin DOMAIN coupons
         THEN /\ Return("deleteCoupon", FALSE, "false")
              /\ UNCHANGED <<db, applied, cart>>
         ELSE \/ /\ coupons' = IF Referenced(id, orders)
                                 THEN [coupons EXCEPT ![id].is_active = FALSE]
                                 ELSE WithoutCoupon(coupons, id)
                 /\ Return("deleteCoupon", TRUE, "")
                 /\ UNCHANGED <<stock, couponSeq, orders, orderItems, applied, cart>>
              \/ \* a statement fails: the catch rethrows, nothing is written
                 /\ Return("deleteCoupon", FALSE, StorageError)
                 /\ UNCHANGED <<db, applied, cart>>
    /\ UNCHANGED proc

\* --------------------------------------------------------- updateOrderStatus
updateOrderStatus(id, status) ==
    /\ Quiet
    /\ IF id \notin DOMAIN orders
         THEN /\ Return("updateOrderStatus", FALSE, "null")
              /\ UNCHANGED <<db, applied, cart>>
         ELSE /\ orders' = [orders EXCEPT ![id].status = status]
              /\ IF status = "paid"
                   THEN \* the result of generateLicenseKeys is not looked at
                        \E r \in KeyOutcomes(orderItems, id) : orderItems' = r.items
                   ELSE UNCHANGED orderItems
              /\ Return("updateOrderStatus", TRUE, "")
              /\ UNCHANGED <<stock, coupons, couponSeq, applied, cart>>
    /\ UNCHANGED proc

\* ------------------------------------------------------- processOrderPayment
\* a faulty PaymentCheck, which accepts a cancelled order too
PaymentCheckOrCancelled(id, ords) ==
    IF id \notin DOMAIN ords THEN "Order not found"
    ELSE IF ords[id].status \notin {"pending", "cancelled"}
        THEN "Order is not pending payment"
    ELSE "ok"

\* a faulty PaymentCheck, which accepts an order of any status
PaymentCheckAnyStatus(id, ords) ==
    IF id \notin DOMAIN ords THEN "Order not found" ELSE "ok"

\* the failure processOrderPayment returns for the order row it read, or "ok"
PaymentCheck(id, ords) ==
    IF id \notin DOMAIN ords THEN "Order not found"
    ELSE IF ords[id].status # "pending" THEN "Order is not pending payment"
    ELSE "ok"

processOrderPayment(orderId, paymentMethod, paymentReference) ==
    LET v == PaymentCheck(orderId, orders) IN
    /\ Quiet
    /\ IF v # "ok"
         THEN /\ Return("processOrderPayment", FALSE, v)
              /\ UNCHANGED <<db, applied, cart>>
         ELSE /\ orders' = [orders EXCEPT ![orderId].status = "paid",
                                          ![orderId].payment_method = Some(paymentMethod),
                                          ![orderId].payment_reference = Some(paymentReference)]
              \* the result of generateLicenseKeys is not looked at
              /\ \E r \in KeyOutcomes(orderItems, orderId) : orderItems' = r.items
              /\ Return("processOrderPayment", TRUE, "")
              /\ UNCHANGED <<stock, coupons, couponSeq, applied, cart>>
    /\ UNCHANGED proc

\* --------------------------------------------------------------- refundOrder
\* a faulty RefundCheck, which accepts an order of any status
RefundCheckAnyStatus(id, ords) ==
    IF id \notin DOMAIN ords THEN "Order not found" ELSE "ok"

\* the failure refundOrder returns for the order row it read, or "ok"
RefundCheck(id, ords) ==
    IF id \notin DOMAIN ords THEN "Order not found"
    ELSE IF ords[id].status # "paid" /\ ords[id].status # "completed"
        THEN "Order cannot be refunded"
    ELSE "ok"

\* a faulty WithoutLicenseKeys, which leaves download_expires_at in place
WithoutLicenseKeysOnly(items, orderId) ==
    [i \in DOMAIN items |->
        IF items[i].order_id = orderId
            THEN [items[i] EXCEPT !.license_key = NULL]
            ELSE items[i]]

\* order_items after "set license_key = null, download_expires_at = null
\* where order_id = ?"
WithoutLicenseKeys(items, orderId) ==
    [i \in DOMAIN items |->
        IF items[i].order_id = orderId
            THEN [items[i] EXCEPT !.license_key = NULL, !.download_expires_at = NULL]
            ELSE items[i]]

\* a faulty RestoreStock, which gives back one unit per item row
RECURSIVE RestoreStockByOne(_, _, _)
RestoreStockByOne(stk, items, rows) ==
    IF rows = {} THEN stk
    ELSE LET i == CHOOSE j \in rows : \A k \in rows : j <= k
             q == items[i].product_id
         IN  RestoreStockByOne(IF q \in DOMAIN stk
                                   THEN [stk EXCEPT ![q] = stk[q] + 1]
                                   ELSE stk,
                               items, rows \ {i})

\* stock after the restore loop: each item row of the order, in turn, reads
\* its product's stock_quantity and writes it back increased by its quantity
RECURSIVE RestoreStock(_, _, _)
RestoreStock(stk, items, rows) ==
    IF rows = {} THEN stk
    ELSE LET i == CHOOSE j \in rows : \A k \in rows : j <= k
             q == items[i].product_id
         IN  RestoreStock(IF q \in DOMAIN stk
                              THEN [stk EXCEPT ![q] = stk[q] + items[i].quantity]
                              ELSE stk,
                          items, rows \ {i})

ItemsOf(items, orderId) == {i \in DOMAIN items : items[i].order_id = orderId}

\* what refundOrder's transaction writes
CommitRefund(orderId) ==
    /\ orders' = [orders EXCEPT ![orderId].status = "refunded"]
    /\ orderItems' = WithoutLicenseKeys(orderItems, orderId)
    /\ stock' = RestoreStock(stock, orderItems, ItemsOf(orderItems, orderId))
    /\ UNCHANGED <<coupons, couponSeq>>

refundOrder(orderId) ==
    LET v == RefundCheck(orderId, orders) IN
    /\ Quiet
    /\ IF v # "ok"
         THEN /\ Return("refundOrder", FALSE, v)
              /\ UNCHANGED <<db, applied, cart>>
         ELSE \/ /\ CommitRefund(orderId)
                 /\ UNCHANGED <<applied, cart>>
                 /\ Return("refundOrder", TRUE, "")
              \/ \* a statement of the transaction fails: rollback, caught
                 /\ Return("refundOrder", FALSE, "Refund processing failed")
                 /\ UNCHANGED <<db, applied, cart>>
    /\ UNCHANGED proc

\* ------------------------------------------------- validateCoupon, applyCoupon
\* "select from coupons where code = ? limit 1": the id or NULL
SelectCoupon(code, cps) ==
    IF \E c \in DOMAIN cps : cps[c].code = code
        THEN Some(CHOOSE c \in DOMAIN cps : cps[c].code = code)
        ELSE NULL

\* discount of validateCoupon, in milli; orderTotal in cents
ValidDiscount(c, orderTotal) ==
    Min(IF c.discount_type = "percentage"
            THEN (orderTotal * c.discount_value) \div 10
            ELSE c.discount_value * Milli,
        orderTotal * Milli)

\* validateCoupon(code, orderTotal) on the coupon rows cps
validateCoupon(code, orderTotal, cps) ==
    LET cid == SelectCoupon(code, cps)
        c == cps[Val(cid)]
        Invalid(e) == [isValid |-> FALSE, error |-> e]
    IN  IF cid = NULL THEN Invalid("Coupon not found")
        ELSE IF ~c.is_active THEN Invalid("Coupon is not active")
        ELSE IF c.expires_at # NULL /\ Now > Val(c.expires_at)
            THEN Invalid("Coupon has expired")
        ELSE IF c.usage_limit # NULL /\ c.used_count >= Val(c.usage_limit)
            THEN Invalid("Coupon usage limit reached")
        ELSE IF c.minimum_order # NULL /\ orderTotal < Val(c.minimum_order)
            THEN Invalid("Minimum order amount required")
        ELSE [isValid |-> TRUE, error |-> "", id |-> Val(cid), used_count |-> c.used_count,
              discount |-> ValidDiscount(c, orderTotal)]

\* the first write of applyCoupon: the coupon row
ApplyCouponRow(cps, validation) ==
    IF validation.id \in DOMAIN cps
        THEN [cps EXCEPT ![validation.id].used_count = validation.used_count + 1]
        ELSE cps

\* the second write of applyCoupon: the order row; orderTotal is the subtotal
\* the call read, in cents
ApplyOrderRow(ords, orderId, orderTotal, validation) ==
    [ords EXCEPT ![orderId].coupon_id = Some(validation.id),
                 ![orderId].discount_amount = Round2(validation.discount),
                 ![orderId].total_amount = Round2(orderTotal * Milli - validation.discount)]

applyCoupon(code, orderId) ==
    /\ Quiet
    /\ IF orderId \notin DOMAIN orders
         THEN /\ Return("applyCoupon", FALSE, "Order not found")
              /\ UNCHANGED <<db, applied, cart>>
         ELSE LET orderTotal == orders[orderId].subtotal
                  validation == validateCoupon(code, orderTotal, coupons)
              IN  IF ~validation.isValid
                    THEN /\ Return("applyCoupon", FALSE, validation.error)
                         /\ UNCHANGED <<db, applied, cart>>
                    ELSE \/ /\ coupons' = ApplyCouponRow(coupons, validation)
                            /\ orders' = ApplyOrderRow(orders, orderId, orderTotal, validation)
                            /\ applied' = Applied(Some(validation.id)) /\ UNCHANGED cart
                            /\ Return("applyCoupon", TRUE, "")
                            /\ UNCHANGED <<stock, couponSeq, orderItems>>
                         \/ \* the coupon update fails: caught, nothing is written
                            /\ Return("applyCoupon", FALSE, "Application failed")
                            /\ UNCHANGED <<db, applied, cart>>
                         \/ \* the order update fails: caught; the two updates are
                            \* in no transaction, so the coupon update stays
                            /\ coupons' = ApplyCouponRow(coupons, validation)
                            /\ Return("applyCoupon", FALSE, "Application failed")
                            /\ UNCHANGED <<stock, couponSeq, orders, orderItems, applied, cart>>
    /\ UNCHANGED proc

\* --------------------------------------------------------------------- cart
\* the rows of "select from cart_items where user_id = ? and product_id = ?"
SelectCartItem(items, userId, productId) ==
    {c \in DOMAIN items : items[c].user_id = userId /\ items[c].product_id = productId}

\* a faulty ValidateAddToCart, which checks the requested quantity only
ValidateAddToCartRequestOnly(input, stk, items) ==
    IF input.user_id \notin UserIds THEN "User not found"
    ELSE IF ~(input.product_id \in ProductIds /\ IsActive(input.product_id))
        THEN "Product not found or inactive"
    ELSE IF stk[input.product_id] < input.quantity THEN "Insufficient stock"
    ELSE "ok"

\* the error addToCart throws for this input, or "ok"
ValidateAddToCart(input, stk, items) ==
    LET existing == SelectCartItem(items, input.user_id, input.product_id) IN
    IF input.user_id \notin UserIds THEN "User not found"
    ELSE IF ~(input.product_id \in ProductIds /\ IsActive(input.product_id))
        THEN "Product not found or inactive"
    ELSE IF stk[input.product_id] < input.quantity THEN "Insufficient stock"
    ELSE IF existing # {} /\
            items[CHOOSE c \in existing : TRUE].quantity + input.quantity
                > stk[input.product_id]
        THEN "Insufficient stock for requested quantity"
    ELSE "ok"

NewCartRow(input) ==
    [user_id |-> input.user_id, product_id |-> input.product_id, quantity |-> input.quantity]

addToCart(input) ==
    LET v == ValidateAddToCart(input, stock, cartItems)
        existing == SelectCartItem(cartItems, input.user_id, input.product_id)
    IN
    /\ Quiet
    /\ IF v # "ok"
         THEN /\ Return("addToCart", FALSE, v)
              /\ UNCHANGED cart
         ELSE \/ /\ IF existing # {}
                      THEN LET c == CHOOSE x \in existing : TRUE IN
                           /\ cartItems' = [cartItems EXCEPT
                                               ![c].quantity = @ + input.quantity]
                           /\ UNCHANGED cartSeq
                      ELSE /\ cartSeq' = cartSeq + 1
                           /\ cartItems' = [c \in DOMAIN cartItems \cup {cartSeq + 1} |->
                                               IF c = cartSeq + 1 THEN NewCartRow(input)
                                               ELSE cartItems[c]]
                 /\ Return("addToCart", TRUE, "")
              \/ \* a statement fails: the catch rethrows, nothing is written
                 /\ Return("addToCart", FALSE, StorageError)
                 /\ UNCHANGED cart
    /\ UNCHANGED <<db, applied, proc>>

\* the error updateCartItem throws for the cart row and this quantity, or "ok"
ValidateCartUpdate(row, quantity, stk) ==
    IF ~(row.product_id \in ProductIds /\ IsActive(row.product_id))
        THEN "Product not available"
    ELSE IF stk[row.product_id] < quantity THEN "Insufficient stock"
    ELSE "ok"

updateCartItem(input) ==
    /\ Quiet
    /\ IF input.id \notin DOMAIN cartItems
         THEN /\ Return("updateCartItem", FALSE, "null")
              /\ UNCHANGED cart
         ELSE LET v == ValidateCartUpdate(cartItems[input.id], input.quantity, stock) IN
              IF v # "ok"
                THEN /\ Return("updateCartItem", FALSE, v)
                     /\ UNCHANGED cart
                ELSE \/ /\ cartItems' = [cartItems EXCEPT ![input.id].quantity = input.quantity]
                        /\ UNCHANGED cartSeq
                        /\ Return("updateCartItem", TRUE, "")
                     \/ /\ Return("updateCartItem", FALSE, StorageError)
                        /\ UNCHANGED cart
    /\ UNCHANGED <<db, applied, proc>>

\* "delete from cart_items where id = ? and user_id = ? returning"
removeFromCart(cartItemId, userId) ==
    LET gone == {c \in DOMAIN cartItems : c = cartItemId /\ cartItems[c].user_id = userId} IN
    /\ Quiet
    /\ cartItems' = [c \in DOMAIN cartItems \ gone |-> cartItems[c]]
    /\ Return("removeFromCart", gone # {}, IF gone # {} THEN "" ELSE "false")
    /\ UNCHANGED <<db, applied, cartSeq, proc>>

\* "delete from cart_items where user_id = ?"
clearCart(userId) ==
    /\ Quiet
    /\ cartItems' = [c \in {x \in DOMAIN cartItems : cartItems[x].user_id # userId} |->
                        cartItems[c]]
    /\ Return("clearCart", TRUE, "")
    /\ UNCHANGED <<db, applied, cartSeq, proc>>

\* ------------------------------------------- createOrder, statement by statement
\* A call in flight is proc[w]: pc names the statement it is about to run, the
\* other fields are its local variables.  Calls of different workers
\* interleave between statements.  What a transaction writes becomes visible
\* to the other calls when it commits, all at once; the statements after its
\* select are one step with the commit.

\* lines 13-53: the user and product selects, the checks, the subtotal
coStart(w, input) ==
    LET products == SelectProducts(input.items, stock)
        v == ValidateOrder(input, products)
    IN  /\ proc[w] = Idle
        /\ IF v # "ok"
             THEN /\ Return("createOrder", FALSE, v)
                  /\ UNCHANGED proc
             ELSE /\ proc' = [proc EXCEPT ![w] =
                        [pc |-> "co_coupon", input |-> input, products |-> products]]
                  /\ UNCHANGED ret
        /\ UNCHANGED <<db, applied, cart>>

\* lines 55-96: the coupon select, its eligibility, the amounts
coCoupon(w) ==
    /\ proc[w].pc = "co_coupon"
    /\ proc' = [proc EXCEPT ![w] =
            [pc |-> "co_tx", input |-> proc[w].input, products |-> proc[w].products,
             price |-> PriceOrder(proc[w].input, proc[w].products, coupons)]]
    /\ UNCHANGED <<db, applied, cart, ret>>

\* lines 102-146: the transaction begins, inserts the order and its items and
\* selects the coupon row again
coTxRead(w) ==
    LET cid == proc[w].price.coupon_id IN
    /\ proc[w].pc = "co_tx"
    /\ cid # NULL => Val(cid) \in DOMAIN coupons
    /\ proc' = [proc EXCEPT ![w] =
            [pc |-> "co_commit", input |-> proc[w].input, products |-> proc[w].products,
             price |-> proc[w].price,
             usedRead |-> IF cid = NULL THEN 0 ELSE coupons[Val(cid)].used_count]]
    /\ UNCHANGED <<db, applied, cart, ret>>

\* lines 148-173: the coupon and stock updates, the commit, the return
coCommit(w) ==
    /\ proc[w].pc = "co_commit"
    /\ Len(orders) < MaxOrders
    /\ CommitOrder(proc[w].input, proc[w].products, proc[w].price, proc[w].usedRead,
                   FreshTime)
    /\ applied' = Applied(proc[w].price.coupon_id) /\ UNCHANGED cart
    /\ proc' = [proc EXCEPT ![w] = Idle]
    /\ Return("createOrder", TRUE, "")

\* a faulty coAbort, with no rollback: the order row inserted before the
\* failing statement stays
coAbortNoRollback(w) ==
    /\ proc[w].pc \in {"co_tx", "co_commit"}
    /\ Len(orders) < MaxOrders
    /\ orders' = Append(orders, NewOrderRow(proc[w].input, proc[w].price, FreshTime))
    /\ proc' = [proc EXCEPT ![w] = Idle]
    /\ Return("createOrder", FALSE, StorageError)
    /\ UNCHANGED <<stock, coupons, couponSeq, orderItems, applied, cart>>

\* a statement of the transaction fails (a storage error): db.transaction
\* rolls back what the transaction wrote and createOrder rethrows
coAbort(w) ==
    /\ proc[w].pc \in {"co_tx", "co_commit"}
    /\ proc' = [proc EXCEPT ![w] = Idle]
    /\ Return("createOrder", FALSE, StorageError)
    /\ UNCHANGED <<db, applied, cart>>

\* ------------------------------------------- refundOrder, statement by statement
\* lines 543-557: the order select and the status check, outside the transaction
rfStart(w, orderId) ==
    LET v == RefundCheck(orderId, orders) IN
    /\ proc[w] = Idle
    /\ IF v # "ok"
         THEN /\ Return("refundOrder", FALSE, v)
              /\ UNCHANGED proc
         ELSE /\ proc' = [proc EXCEPT ![w] = [pc |-> "rf_tx", orderId |-> orderId]]
              /\ UNCHANGED ret
    /\ UNCHANGED <<db, applied, cart>>

\* lines 560-590: the transaction begins and updates the order row, which it
\* then holds locked until it ends, so a second refund of the same order
\* waits here for the first to commit; it updates and selects the order's
\* items and selects the products.  What it read of stock_quantity is kept in
\* `products`.
rfTxRead(w) ==
    /\ proc[w].pc = "rf_tx"
    /\ \A x \in Workers \ {w} :
          ~(proc[x].pc = "rf_commit" /\ proc[x].orderId = proc[w].orderId)
    /\ proc' = [proc EXCEPT ![w] =
            [pc |-> "rf_commit", orderId |-> proc[w].orderId, products |-> stock]]
    /\ UNCHANGED <<db, applied, cart, ret>>

\* stock after a refund transaction that read `products` commits: the
\* products of the order's items get what the restore loop computed from
\* the values read, the others are not written
RestoredStock(stk, products, items, orderId) ==
    LET rows == ItemsOf(items, orderId)
        restored == RestoreStock(products, items, rows)
    IN  [q \in DOMAIN stk |->
            IF \E i \in rows : items[i].product_id = q THEN restored[q] ELSE stk[q]]

\* lines 590-601: the product updates, the commit, the return
rfCommit(w) ==
    LET orderId == proc[w].orderId IN
    /\ proc[w].pc = "rf_commit"
    /\ orders' = [orders EXCEPT ![orderId].status = "refunded"]
    /\ orderItems' = WithoutLicenseKeys(orderItems, orderId)
    /\ stock' = RestoredStock(stock, proc[w].products, orderItems, orderId)
    /\ proc' = [proc EXCEPT ![w] = Idle]
    /\ Return("refundOrder", TRUE, "")
    /\ UNCHANGED <<coupons, couponSeq, applied, cart>>

\* lines 603-606: a statement of the transaction fails, db.transaction rolls
\* back and the catch returns the failure
rfAbort(w) ==
    /\ proc[w].pc \in {"rf_tx", "rf_commit"}
    /\ proc' = [proc EXCEPT ![w] = Idle]
    /\ Return("refundOrder", FALSE, "Refund processing failed")
    /\ UNCHANGED <<db, applied, cart>>

\* ---------------- processOrderPayment, generateLicenseKeys, statement by statement
\* lines 372-385: the order select and the checks
ppStart(w, orderId, paymentMethod, paymentReference) ==
    LET v == PaymentCheck(orderId, orders) IN
    /\ proc[w] = Idle
    /\ IF v # "ok"
         THEN /\ Return("processOrderPayment", FALSE, v)
              /\ UNCHANGED proc
         ELSE /\ proc' = [proc EXCEPT ![w] =
                        [pc |-> "pp_update", orderId |-> orderId,
                         paymentMethod |-> paymentMethod,
                         paymentReference |-> paymentReference]]
              /\ UNCHANGED ret
    /\ UNCHANGED <<db, applied, cart>>

\* lines 388-396: "update orders set status = 'paid', ... where id = ?"
ppUpdate(w) ==
    LET orderId == proc[w].orderId IN
    /\ proc[w].pc = "pp_update"
    /\ orders' = [orders EXCEPT ![orderId].status = "paid",
                                ![orderId].payment_method = Some(proc[w].paymentMethod),
                                ![orderId].payment_reference = Some(proc[w].paymentReference)]
    /\ proc' = [proc EXCEPT ![w] =
            [pc |-> "gk_select", orderId |-> orderId, caller |-> "processOrderPayment"]]
    /\ UNCHANGED <<stock, coupons, couponSeq, orderItems, applied, cart, ret>>

\* lines 418-421: the update fails and the catch returns the failure
ppAbort(w) ==
    /\ proc[w].pc = "pp_update"
    /\ proc' = [proc EXCEPT ![w] = Idle]
    /\ Return("processOrderPayment", FALSE, "Payment processing failed")
    /\ UNCHANGED <<db, applied, cart>>

\* a call of generateLicenseKeys begins
gkStart(w, orderId) ==
    /\ proc[w] = Idle
    /\ proc' = [proc EXCEPT ![w] =
            [pc |-> "gk_select", orderId |-> orderId, caller |-> "generateLicenseKeys"]]
    /\ UNCHANGED <<db, applied, cart, ret>>

\* lines 431-438: the select of the order's items that have no license key
gkSelect(w) ==
    /\ proc[w].pc = "gk_select"
    /\ proc' = [proc EXCEPT ![w] =
            [pc |-> "gk_write", orderId |-> proc[w].orderId, caller |-> proc[w].caller,
             need |-> NeedKey(orderItems, proc[w].orderId)]]
    /\ UNCHANGED <<db, applied, cart, ret>>

\* lines 445-457: one turn of the loop, "update order_items set license_key
\* = ?, download_expires_at = ? where id = ?" for a row that was selected
gkWrite(w) ==
    /\ proc[w].pc = "gk_write"
    /\ \E i \in proc[w].need :
          /\ orderItems' = WriteLicenseKeys(orderItems, {i})
          /\ proc' = [proc EXCEPT ![w].need = @ \ {i}]
    /\ UNCHANGED <<stock, coupons, couponSeq, orders, applied, cart, ret>>

\* what the call that ran generateLicenseKeys returns when generateLicenseKeys
\* returned `ok`: processOrderPayment does not look at it
gkReturn(w, ok) ==
    /\ proc' = [proc EXCEPT ![w] = Idle]
    /\ IF proc[w].caller = "processOrderPayment"
         THEN Return("processOrderPayment", TRUE, "")
         ELSE Return("generateLicenseKeys", ok, IF ok THEN "" ELSE StorageError)
    /\ UNCHANGED <<db, applied, cart>>

\* lines 440-442, 459: every selected row is written
gkDone(w) ==
    /\ proc[w].pc = "gk_write"
    /\ proc[w].need = {}
    /\ gkReturn(w, TRUE)

\* lines 461-464: the select or an update fails and the catch returns false
gkFail(w) ==
    /\ \/ proc[w].pc = "gk_select"
       \/ proc[w].pc = "gk_write" /\ proc[w].need # {}
    /\ gkReturn(w, FALSE)

\* ------------------------------------------------------------------ inputs
GoodItems == [product_id : {p \in ProductIds : IsActive(p)}, quantity : 1..MaxQty]
\* order lines: every sequence of lines on active products of a total
\* quantity up to MaxQty, and lines that name the inactive product 3 or the
\* missing product 4
ItemSeqs ==
    {s \in UNION {[1..n -> GoodItems] : n \in 1..MaxItems} :
        SumSeq([i \in DOMAIN s |-> s[i].quantity]) <= MaxQty}
    \cup {<<[product_id |-> 3, quantity |-> 1]>>, <<[product_id |-> 4, quantity |-> 1]>>,
          <<[product_id |-> 1, quantity |-> 1], [product_id |-> 3, quantity |-> 1]>>}
One == <<[product_id |-> 1, quantity |-> 1]>>
\* createOrder inputs: user 2 and coupon code NOPE name no row
OrderInputs ==
    [user_id : {u \in UserIds : UserIsActive(u)}, items : ItemSeqs, coupon_code : {NULL} \cup {Some(c) : c \in Codes}]
    \cup {[user_id |-> 2, items |-> One, coupon_code |-> NULL],
          [user_id |-> 1, items |-> One, coupon_code |-> Some("NOPE")]}
PlainOrderInputs == {input \in OrderInputs : input.coupon_code = NULL}
\* the orders of the workflow specification: one line of MaxQty units, two
\* lines of one unit each, and a line on the inactive product
WorkflowItems ==
    {<<[product_id |-> 1, quantity |-> MaxQty]>>,
     <<[product_id |-> 1, quantity |-> 1], [product_id |-> 2, quantity |-> 1]>>,
     <<[product_id |-> 3, quantity |-> 1]>>}
WorkflowInputs == {input \in PlainOrderInputs : input.items \in WorkflowItems}
OrderIdInputs == 1..(MaxOrders + 1)
CodeInputs == Codes \cup {"NOPE"}

CouponInputs ==
    [ code : Codes,
      discount_type : {"percentage", "fixed"},
      discount_value : {2000, 15000},
      minimum_order : {NULL, Some(5000)},
      usage_limit : {NULL, Some(0), Some(1)},
      expires_at : {NULL, Some(Now - 1)} ]

NoUpdate(id) ==
    [ id |-> id, code |-> UNSET, discount_type |-> UNSET, discount_value |-> UNSET,
      minimum_order |-> UNSET, usage_limit |-> UNSET, expires_at |-> UNSET,
      is_active |-> UNSET ]

\* updateCoupon inputs: one field given, or discount_type and discount_value
CouponUpdates ==
    UNION { {[NoUpdate(id) EXCEPT !.discount_value = Given(15000)],
             [NoUpdate(id) EXCEPT !.discount_type = Given("percentage")],
             [NoUpdate(id) EXCEPT !.discount_type = Given("percentage"),
                                  !.discount_value = Given(15000)],
             [NoUpdate(id) EXCEPT !.usage_limit = Given(Some(1))],
             [NoUpdate(id) EXCEPT !.is_active = Given(FALSE)],
             [NoUpdate(id) EXCEPT !.is_active = Given(TRUE)]} : id \in 1..2 }

\* createOrder inputs as the schema has them, each line with a price field
\* of the request, which is not the stored price of any product
RequestPrices == {1, 9999}
InactiveUserInput == [user_id |-> 3, items |-> One, coupon_code |-> NULL]
PricedOrderInputs ==
    {[input EXCEPT !.items = [i \in DOMAIN input.items |->
            [product_id |-> input.items[i].product_id,
             quantity |-> input.items[i].quantity,
             price |-> pr]]] :
        input \in OrderInputs \cup {InactiveUserInput}, pr \in RequestPrices}

\* ---------------------------------------------------------- specifications
\* The catalog is in place and every other table is empty.
Init ==
    /\ stock = [p \in ProductIds |-> InitStock]
    /\ coupons = <<>>
    /\ couponSeq = 0
    /\ orders = <<>>
    /\ orderItems = <<>>
    /\ applied = <<>>
    /\ cartItems = <<>>
    /\ cartSeq = 0
    /\ ret = [op |-> "", ok |-> TRUE, error |-> ""]
    /\ proc = [w \in Workers |-> Idle]

\* Spec: the order workflow, one call at a time.
Next ==
    \/ \E input \in WorkflowInputs : createOrder(input)
    \/ \E id \in OrderIdInputs, status \in Statuses : updateOrderStatus(id, status)
    \/ \E id \in OrderIdInputs : processOrderPayment(id, "card", "ref")
    \/ \E id \in OrderIdInputs : generateLicenseKeys(id)
    \/ \E id \in OrderIdInputs :
          refundOrder(id) /\ \A p \in ProductIds : stock'[p] <= MaxStock

Spec == Init /\ [][Next]_vars

\* SpecCoupon: coupon management and the two ways of applying a coupon, one
\* call at a time.
NextCoupon ==
    \/ \E input \in CouponInputs : createCoupon(input)
    \/ \E input \in CouponUpdates : updateCoupon(input)
    \/ \E input \in OrderInputs : createOrder(input)
    \/ \E code \in CodeInputs, id \in OrderIdInputs :
          applyCoupon(code, id) /\ \A c \in DOMAIN coupons' : coupons'[c].used_count <= MaxUses

SpecCoupon == Init /\ [][NextCoupon]_vars

\* SpecRoundTrip: orders that are created, paid and refunded, one call at a time.
NextRoundTrip ==
    \/ \E input \in PlainOrderInputs : createOrder(input)
    \/ \E id \in OrderIdInputs : processOrderPayment(id, "card", "ref")
    \/ \E id \in OrderIdInputs : refundOrder(id)

SpecRoundTrip == Init /\ [][NextRoundTrip]_vars

\* SpecPricing: coupons are created and orders are placed with requests that
\* carry prices of their own, one call at a time.
NextPricing ==
    \/ \E input \in CouponInputs : createCoupon(input)
    \/ \E input \in PricedOrderInputs : createOrder(input)

SpecPricing == Init /\ [][NextPricing]_vars

\* SpecNumber: orders placed at any of a few milliseconds, one call at a
\* time; the last of them is a million milliseconds after the first.
CallTimes == {1, 2, 1000001}
NextNumber ==
    \/ \E input \in PlainOrderInputs, t \in CallTimes : createOrderAt(input, t)

SpecNumber == Init /\ [][NextNumber]_vars

\* SpecRace: createOrder calls of two workers, interleaved statement by
\* statement.  A coupon that one order may use is in place.
RaceCoupon ==
    [code |-> "SAVE", discount_type |-> "percentage", discount_value |-> 2000,
     minimum_order |-> NULL, usage_limit |-> Some(1), expires_at |-> NULL]

InitRace ==
    /\ stock = [p \in ProductIds |-> InitStock]
    /\ coupons = [c \in {1} |-> NewCouponRow(RaceCoupon)]
    /\ couponSeq = 1
    /\ orders = <<>>
    /\ orderItems = <<>>
    /\ applied = <<>>
    /\ cartItems = <<>>
    /\ cartSeq = 0
    /\ ret = [op |-> "", ok |-> TRUE, error |-> ""]
    /\ proc = [w \in Workers |-> Idle]

NextRace ==
    \/ \E w \in Workers, input \in OrderInputs : coStart(w, input)
    \/ \E w \in Workers : coCoupon(w)
    \/ \E w \in Workers : coTxRead(w)
    \/ \E w \in Workers : coCommit(w)
    \/ \E w \in Workers : coAbort(w)

SpecRace == InitRace /\ [][NextRace]_vars

\* SpecOrderRace: an order is in place, as createOrder left it; payments,
\* key generations and refunds of two workers interleave statement by
\* statement.
PlacedOrder ==
    [user_id |-> 1,
     items |-> <<[product_id |-> 1, quantity |-> 1], [product_id |-> 2, quantity |-> 1]>>,
     coupon_code |-> NULL]
PaymentReferences == {"ref-1", "ref-2"}
RaceOrderIds == DOMAIN orders \cup {Len(orders) + 1}

InitOrderRace ==
    LET input == PlacedOrder
        initial == [p \in ProductIds |-> InitStock]
        price == PriceOrder(input, SelectProducts(input.items, initial), <<>>)
    IN  /\ stock = [q \in ProductIds |->
                       initial[q] - SumSeq([i \in DOMAIN input.items |->
                            IF input.items[i].product_id = q
                                THEN input.items[i].quantity ELSE 0])]
        /\ coupons = <<>>
        /\ couponSeq = 0
        /\ orders = <<NewOrderRow(input, price, Len(<<>>) + 1)>>
        /\ orderItems = [i \in DOMAIN input.items |-> NewItemRow(1, input.items[i])]
        /\ applied = <<>>
        /\ cartItems = <<>>
        /\ cartSeq = 0
        /\ ret = [op |-> "createOrder", ok |-> TRUE, error |-> ""]
        /\ proc = [w \in Workers |-> Idle]

NextOrderRace ==
    \/ \E w \in Workers, id \in RaceOrderIds, r \in PaymentReferences :
          ppStart(w, id, "card", r)
    \/ \E w \in Workers : ppUpdate(w)
    \/ \E w \in Workers : ppAbort(w)
    \/ \E w \in Workers, id \in RaceOrderIds : gkStart(w, id)
    \/ \E w \in Workers : gkSelect(w)
    \/ \E w \in Workers : gkWrite(w)
    \/ \E w \in Workers : gkDone(w)
    \/ \E w \in Workers : gkFail(w)
    \/ \E w \in Workers, id \in RaceOrderIds : rfStart(w, id)
    \/ \E w \in Workers : rfTxRead(w)
    \/ \E w \in Workers : rfCommit(w)
    \/ \E w \in Workers : rfAbort(w)

SpecOrderRace == InitOrderRace /\ [][NextOrderRace]_vars

\* SpecRefundRace: the order in place is paid one call at a time; refunds
\* of two workers interleave statement by statement.
NextRefundRace ==
    \/ \E id \in RaceOrderIds, r \in PaymentReferences : processOrderPayment(id, "card", r)
    \/ \E w \in Workers, id \in RaceOrderIds : rfStart(w, id)
    \/ \E w \in Workers : rfTxRead(w)
    \/ \E w \in Workers : rfCommit(w)
    \/ \E w \in Workers : rfAbort(w)

SpecRefundRace == InitOrderRace /\ [][NextRefundRace]_vars

\* SpecStockRace: createOrder calls and refundOrder calls of two workers,
\* interleaved statement by statement, for orders on product 1; orders are
\* paid one call at a time.
StockRaceInputs ==
    {input \in PlainOrderInputs :
        input.user_id = 1 /\ Len(input.items) = 1 /\ input.items[1].product_id = 1}

NextStockRace ==
    \/ \E w \in Workers, input \in StockRaceInputs : coStart(w, input)
    \/ \E w \in Workers : coCoupon(w)
    \/ \E w \in Workers : coTxRead(w)
    \/ \E w \in Workers : coCommit(w)
    \/ \E w \in Workers : coAbort(w)
    \/ \E id \in OrderIdInputs : processOrderPayment(id, "card", "ref")
    \/ \E w \in Workers, id \in OrderIdInputs : rfStart(w, id)
    \/ \E w \in Workers : rfTxRead(w)
    \/ \E w \in Workers : rfCommit(w)
    \/ \E w \in Workers : rfAbort(w)

SpecStockRace == Init /\ [][NextStockRace]_vars

\* SpecDelete: coupons are created, applied by createOrder and applyCoupon,
\* and deleted, one call at a time.
DeleteCouponInputs ==
    {input \in CouponInputs :
        /\ input.discount_value = 2000
        /\ input.minimum_order = NULL
        /\ input.usage_limit # Some(0)
        /\ input.expires_at = NULL}
DeleteOrderInputs ==
    {input \in OrderInputs : input.user_id = 1 /\ input.items = One}
CouponIdInputs == 1..(MaxCoupons + 1)

NextDelete ==
    \/ \E input \in DeleteCouponInputs : createCoupon(input) /\ couponSeq < MaxCoupons
    \/ \E input \in DeleteOrderInputs : createOrder(input)
    \/ \E code \in Codes, id \in OrderIdInputs :
          applyCoupon(code, id) /\ \A c \in DOMAIN coupons' : coupons'[c].used_count <= MaxUses
    \/ \E id \in CouponIdInputs : deleteCoupon(id)

SpecDelete == Init /\ [][NextDelete]_vars

\* SpecCart: two users fill, change and empty their carts while orders take
\* stock, one call at a time.
CartQuantities == 1..(InitStock + 1)
CartInputs ==
    [user_id : UserIds, product_id : {1, 3}, quantity : CartQuantities]
    \cup {[user_id |-> 2, product_id |-> 1, quantity |-> 1],
          [user_id |-> 1, product_id |-> 2, quantity |-> 1]}
CartIdInputs == 1..(MaxCartRows + 1)

NextCart ==
    \/ \E input \in CartInputs : addToCart(input) /\ cartSeq' <= MaxCartRows
    \/ \E id \in CartIdInputs, q \in CartQuantities :
          updateCartItem([id |-> id, quantity |-> q])
    \/ \E id \in CartIdInputs, u \in UserIds : removeFromCart(id, u)
    \/ \E u \in UserIds : clearCart(u)
    \/ \E input \in DeleteOrderInputs : createOrder(input)

SpecCart == Init /\ [][NextCart]_vars

\* ------------------------------------------------------------------ claims
\* the quantity of product p that the item rows of the orders in ids carry
RECURSIVE QtyOf(_, _, _)
QtyOf(items, p, rows) ==
    IF rows = {} THEN 0
    ELSE LET i == CHOOSE j \in rows : TRUE
         IN  (IF items[i].product_id = p THEN items[i].quantity ELSE 0)
             + QtyOf(items, p, rows \ {i})
OrderedQty(p) == QtyOf(orderItems, p, DOMAIN orderItems)
OrdersWithCoupon(c) == {o \in DOMAIN orders : orders[o].coupon_id = Some(c)}
AppliedCount(c) == IF c \in DOMAIN applied THEN applied[c] ELSE 0

\* C1 (SpecCoupon): every stored order satisfies
\* total_amount = subtotal + tax_amount - discount_amount, after createOrder
\* and after applyCoupon alike, within the cent that the rounding of the
\* stored amounts to two decimals can make.
C1_TotalIsSubtotalPlusTaxMinusDiscount ==
    \A o \in DOMAIN orders :
        LET diff == orders[o].total_amount
                - (orders[o].subtotal + orders[o].tax_amount - orders[o].discount_amount)
        IN  -1 <= diff /\ diff <= 1

\* C3 (SpecRace): with createOrder calls running concurrently, no product is
\* sold beyond its stock and no decrement is lost: the stock is the initial
\* stock less the quantities of all the orders placed.
C3_ConcurrentOrdersKeepStock ==
    \A p \in ProductIds :
        /\ OrderedQty(p) <= InitStock
        /\ stock[p] = InitStock - OrderedQty(p)

\* C4 (SpecCoupon): a coupon with a usage_limit never has a used_count above
\* it, whatever limit createCoupon or updateCoupon stored.
C4_UsedCountWithinLimit ==
    \A c \in DOMAIN coupons :
        coupons[c].usage_limit # NULL => coupons[c].used_count <= Val(coupons[c].usage_limit)

\* C5 (SpecRace): concurrent createOrder calls with the same coupon never
\* place more orders with it than its usage_limit.
C5_ConcurrentOrdersWithinLimit ==
    \A c \in DOMAIN coupons :
        coupons[c].usage_limit # NULL
            => Cardinality(OrdersWithCoupon(c)) <= Val(coupons[c].usage_limit)

\* C6 (SpecRace): used_count is the number of times the coupon was applied
\* with success, also when the applying calls interleave.
C6_UsedCountCountsApplications ==
    \A c \in DOMAIN coupons : coupons[c].used_count = AppliedCount(c)

\* C2 (SpecRace): a createOrder call that fails, whether at a check or at a
\* storage error inside its transaction, leaves orders, order items, coupons
\* and stock as they were: a step that returns a failure from createOrder, and
\* a step that moves a call forward without finishing it, change no table.
C2_FailedCreateOrderWritesNothing ==
    [][ ( \/ ret'.op = "createOrder" /\ ~ret'.ok
          \/ \E w \in Workers : proc'[w] # proc[w] /\ proc'[w] # Idle )
        => UNCHANGED db ]_vars

\* a createOrder call failed at a storage error after another had placed an order
C2_Witness ==
    /\ ret = [op |-> "createOrder", ok |-> FALSE, error |-> StorageError]
    /\ Len(orders) = 1

LegalEdges ==
    { <<"pending", "paid">>, <<"paid", "completed">>, <<"pending", "cancelled">>,
      <<"paid", "refunded">>, <<"completed", "refunded">> }

C8_RefusedRefundChangesNothing ==
    [][ \A id \in OrderIdInputs :
            ( /\ refundOrder(id)
              /\ \/ id \notin DOMAIN orders
                 \/ orders[id].status \notin {"paid", "completed"} )
            => ~ret'.ok /\ UNCHANGED <<orders, orderItems, stock>> ]_vars

\* the refund of an order that is refunded already was refused
C8_Witness ==
    /\ ret = [op |-> "refundOrder", ok |-> FALSE, error |-> "Order cannot be refunded"]
    /\ Len(orders) = 1
    /\ orders[1].status = "refunded"

\* C9 (Spec): a refundOrder that succeeds sets the status to refunded, nulls
\* license_key and download_expires_at of every item of the order and adds the
\* ordered quantity to each product's stock, all in one step; one that fails
\* shows none of the three.
C9_RefundEffectsTogether ==
    [][ \A id \in OrderIdInputs :
            refundOrder(id) =>
                IF ret'.ok
                    THEN /\ orders'[id].status = "refunded"
                         /\ \A i \in ItemsOf(orderItems', id) :
                               /\ orderItems'[i].license_key = NULL
                               /\ orderItems'[i].download_expires_at = NULL
                         /\ \A p \in ProductIds :
                               stock'[p] = stock[p]
                                   + QtyOf(orderItems, p, ItemsOf(orderItems, id))
                    ELSE UNCHANGED <<orders, orderItems, stock>> ]_vars

\* an order paid by processOrderPayment, which issued its keys, was refunded
C9_Witness ==
    /\ ret = [op |-> "refundOrder", ok |-> TRUE, error |-> ""]
    /\ \E o \in DOMAIN orders :
          /\ orders[o].status = "refunded"
          /\ orders[o].payment_method # NULL
          /\ \A i \in ItemsOf(orderItems, o) : orderItems[i].license_key = NULL

\* the item rows of the orders that hold stock: those not refunded
OpenItems ==
    {i \in DOMAIN orderItems : orders[orderItems[i].order_id].status # "refunded"}

\* C10 (SpecRoundTrip): createOrder, payment and refundOrder of an order
\* leave each product's stock where it was before the createOrder: at every
\* moment the stock is the initial stock less the quantities of the orders
\* that are not refunded, so an order counts from its createOrder to its
\* refundOrder and not after.
C10_RefundRestoresStock ==
    \A p \in ProductIds : stock[p] = InitStock - QtyOf(orderItems, p, OpenItems)

\* an order of two units was created, paid and refunded, and nothing else
C10_Witness ==
    /\ Len(orders) = 1
    /\ orders[1].status = "refunded"
    /\ orders[1].payment_method # NULL
    /\ QtyOf(orderItems, 1, DOMAIN orderItems) = MaxQty
    /\ stock = [p \in ProductIds |-> InitStock]

\* C11 (Spec): processOrderPayment succeeds only for an order that is
\* pending; for an order that does not exist or is not pending it returns
\* one of its two failure results and leaves the order's status,
\* payment_method and payment_reference and every item's license key as they
\* were.
C11_PaymentOnlyWhenPending ==
    [][ \A id \in OrderIdInputs :
            processOrderPayment(id, "card", "ref") =>
                IF id \in DOMAIN orders /\ orders[id].status = "pending"
                    THEN TRUE
                    ELSE /\ ~ret'.ok
                         /\ ret'.error \in {"Order not found", "Order is not pending payment"}
                         /\ UNCHANGED <<orders, orderItems>> ]_vars

\* the payment of a cancelled order was refused
C11_Witness ==
    /\ ret = [op |-> "processOrderPayment", ok |-> FALSE,
              error |-> "Order is not pending payment"]
    /\ Len(orders) = 1
    /\ orders[1].status = "cancelled"

\* C12 (Spec): an order that is paid, whether updateOrderStatus or
\* processOrderPayment made it so, has a license_key and a
\* download_expires_at on every one of its items once that call has returned.
C12_PaidOrdersHaveKeys ==
    \A o \in DOMAIN orders :
        orders[o].status = "paid"
            => \A i \in ItemsOf(orderItems, o) :
                  /\ orderItems[i].license_key # NULL
                  /\ orderItems[i].download_expires_at # NULL

\* C13 (Spec): no item of a refunded order has a license_key or a
\* download_expires_at, whatever calls led to the state.
C13_RefundedOrdersHaveNoKeys ==
    \A o \in DOMAIN orders :
        orders[o].status = "refunded"
            => \A i \in ItemsOf(orderItems, o) :
                  /\ orderItems[i].license_key = NULL
                  /\ orderItems[i].download_expires_at = NULL

C15_DiscountWithinSubtotal ==
    \A o \in DOMAIN orders :
        orders[o].coupon_id # NULL => orders[o].discount_amount <= orders[o].subtotal

\* C16 (SpecCoupon): after any createCoupon and updateCoupon calls every
\* percentage coupon has 0 < discount_value <= 100 and every fixed coupon has
\* discount_value > 0 (discount_value is in hundredths here).
C16_DiscountValueInRange ==
    \A c \in DOMAIN coupons :
        /\ coupons[c].discount_value > 0
        /\ coupons[c].discount_type = "percentage" => coupons[c].discount_value <= 100 * 100

\* the coupons that C17 says createOrder applies to an order of this subtotal
\* (in cents): named by the code, active, not expired, not exhausted, minimum met
EligibleCoupons(code, cps, subtotal) ==
    {c \in DOMAIN cps :
        /\ code # NULL /\ cps[c].code = Val(code)
        /\ cps[c].is_active
        /\ cps[c].expires_at = NULL \/ Val(cps[c].expires_at) > Now
        /\ cps[c].usage_limit = NULL \/ cps[c].used_count < Val(cps[c].usage_limit)
        /\ cps[c].minimum_order = NULL \/ subtotal >= Val(cps[c].minimum_order)}

\* C17 (SpecCoupon): a createOrder that succeeds applies the coupon named by
\* coupon_code exactly when that coupon exists, is active, is not expired, is
\* not exhausted (usage_limit null or used_count < usage_limit) and
\* subtotal >= minimum_order; otherwise the order has coupon_id null and
\* discount_amount 0 and no used_count changes.
C17_CouponAppliedIffEligible ==
    [][ \A input \in OrderInputs :
            (ret'.op = "createOrder" /\ ret'.ok /\ createOrder(input)) =>
                LET o == orders'[Len(orders')]
                    eligible == EligibleCoupons(input.coupon_code, coupons, o.subtotal)
                IN  IF eligible # {}
                        THEN /\ o.coupon_id # NULL
                             /\ Val(o.coupon_id) \in eligible
                             /\ coupons'[Val(o.coupon_id)].used_count
                                    = coupons[Val(o.coupon_id)].used_count + 1
                        ELSE /\ o.coupon_id = NULL
                             /\ o.discount_amount = 0
                             /\ coupons' = coupons ]_vars

\* the sum of total_price over the item rows
RECURSIVE SumTotalPrice(_, _)
SumTotalPrice(items, rows) ==
    IF rows = {} THEN 0
    ELSE LET i == CHOOSE j \in rows : TRUE
         IN  items[i].total_price + SumTotalPrice(items, rows \ {i})

\* the catalog pricing of the items of order o, and its subtotal
CatalogPriced(o) ==
    /\ \A i \in ItemsOf(orderItems, o) :
          /\ orderItems[i].unit_price = Price(orderItems[i].product_id)
          /\ orderItems[i].total_price = orderItems[i].unit_price * orderItems[i].quantity
    /\ orders[o].subtotal = SumTotalPrice(orderItems, ItemsOf(orderItems, o))

\* C18 as stated (SpecPricing): the order createOrder stores is priced from
\* the catalog, its tax_amount is 10% of (subtotal - discount_amount) and its
\* total_amount is subtotal + tax_amount - discount_amount, exactly.
C18_PricedExactly ==
    \A o \in DOMAIN orders :
        /\ CatalogPriced(o)
        /\ orders[o].tax_amount * 100
              = (orders[o].subtotal - orders[o].discount_amount) * TaxRatePercent
        /\ orders[o].total_amount
              = orders[o].subtotal + orders[o].tax_amount - orders[o].discount_amount

\* C18 (SpecPricing): the order createOrder stores is priced from the catalog
\* whatever price the request carries: unit_price is the product's price,
\* total_price is unit_price * quantity and subtotal is their sum; tax_amount
\* and total_amount are stored rounded to two decimals, so tax_amount is 10% of
\* (subtotal - discount_amount) and total_amount is
\* subtotal + tax_amount - discount_amount each within one cent.
C18_PricedFromCatalog ==
    \A o \in DOMAIN orders :
        LET taxDiff == orders[o].tax_amount * 100
                - (orders[o].subtotal - orders[o].discount_amount) * TaxRatePercent
            totalDiff == orders[o].total_amount
                - (orders[o].subtotal + orders[o].tax_amount - orders[o].discount_amount)
        IN  /\ CatalogPriced(o)
            /\ -100 <= taxDiff /\ taxDiff <= 100
            /\ -1 <= totalDiff /\ totalDiff <= 1

\* an order of 49.99 was placed with a coupon that took a discount; its tax
\* is not a whole number of cents before rounding
C18_Witness ==
    /\ ret = [op |-> "createOrder", ok |-> TRUE, error |-> ""]
    /\ \E o \in DOMAIN orders :
          /\ orders[o].subtotal = 4999
          /\ orders[o].coupon_id # NULL
          /\ orders[o].discount_amount > 0

\* C19 (SpecPricing): every order is of a user that exists and is active;
\* createOrder for a missing or an inactive user creates none.
C19_OrdersOfActiveUsers ==
    \A o \in DOMAIN orders :
        orders[o].user_id \in UserIds /\ UserIsActive(orders[o].user_id)

\* C20 (SpecPricing): createOrder, for a user that exists, rejects a request
\* with the products-not-found-or-inactive error exactly when one of its lines
\* names a product that is not an existing active product, however the lines
\* are arranged.
C20_RejectedIffProductMissing ==
    [][ \A input \in PricedOrderInputs :
            (ret'.op = "createOrder" /\ input.user_id \in UserIds /\ createOrder(input)) =>
                ( ret'.error = "One or more products not found or inactive"
                  <=> \E i \in DOMAIN input.items :
                         ~ ( /\ input.items[i].product_id \in ProductIds
                             /\ IsActive(input.items[i].product_id) ) ) ]_vars

\* C21 (SpecCoupon): applyCoupon makes both of its writes or neither: when
\* it returns a failure, whether for a missing order, an invalid coupon or a
\* storage error, neither a coupon nor an order has changed.
C21_FailedApplyCouponWritesNothing ==
    [][ (ret'.op = "applyCoupon" /\ ~ret'.ok) => UNCHANGED <<coupons, orders>> ]_vars

\* the subtotals, in cents, of the orders that can be placed
OrderSubtotals == {Subtotal(items, [p \in ProductIds |-> InitStock]) : items \in ItemSeqs} \ {0}

\* C22 (SpecCoupon): for every coupon state and every subtotal,
\* validateCoupon returns isValid = true exactly when createOrder would apply
\* the coupon to an order of that subtotal, and then both compute the same
\* discount.
C22_ValidateAgreesWithCreateOrder ==
    \A code \in Codes, subtotal \in OrderSubtotals :
        LET v == validateCoupon(code, subtotal, coupons)
            cid == SelectActiveCoupon(Some(code), coupons)
            applies == cid # NULL /\ CouponApplies(coupons[Val(cid)], subtotal)
        IN  /\ v.isValid <=> applies
            /\ (v.isValid /\ applies)
                  => /\ v.id = Val(cid)
                     /\ v.discount = OrderDiscount(coupons[Val(cid)], subtotal)

\* C23 (SpecNumber): every stored order has an order_number of six digits
\* that no other order has, and createOrder never fails a request because the
\* number it generated is taken: it tries again with a new one.
C23_OrderNumbersNeverCollide ==
    /\ [](\A o \in DOMAIN orders :
             /\ orders[o].order_number \in 0..999999
             /\ \A q \in DOMAIN orders : orders[q].order_number = orders[o].order_number => q = o)
    /\ [][ ret'.op = "createOrder" => ret'.error # UniqueViolation ]_vars

\* C24 (SpecRefundRace): however refundOrder calls for the same order
\* interleave, the order's quantities are returned to stock once: a product's
\* stock is never more than the initial stock less the quantities of the
\* orders that are not refunded.
C24_RefundRestoresStockOnce ==
    \A p \in ProductIds : stock[p] <= InitStock - QtyOf(orderItems, p, OpenItems)

\* C25 (SpecOrderRace): of the processOrderPayment calls for an order only
\* one records its payment: the payment fields and the paid status are
\* written only while the order is pending.
C25_PaymentRecordedOnce ==
    [][ \A o \in DOMAIN orders :
          (o \in DOMAIN orders' /\
           (orders'[o].payment_method # orders[o].payment_method \/
            orders'[o].payment_reference # orders[o].payment_reference))
          => orders[o].status = "pending" ]_vars

\* C28 (SpecOrderRace): a license key an item holds is never replaced by
\* another key; it changes only by being cleared when its order is refunded.
C28_LicenseKeyNeverReplaced ==
    [][ \A i \in DOMAIN orderItems :
          (orderItems[i].license_key # NULL /\
           orderItems'[i].license_key # orderItems[i].license_key)
          => /\ orderItems'[i].license_key = NULL
             /\ orders'[orderItems[i].order_id].status = "refunded" ]_vars

\* C26 (Spec): nothing restocks a product from outside, so over any sequence
\* of createOrder, updateOrderStatus, processOrderPayment and refundOrder
\* calls no product's stock exceeds its initial stock.
C26_StockNeverAboveInitial ==
    \A p \in ProductIds : stock[p] <= InitStock

\* C27 (SpecStockRace): a product's stock_quantity is never negative,
\* however createOrder calls for the product interleave with each other and
\* with refundOrder calls.
C27_StockNeverNegative ==
    \A p \in ProductIds : stock[p] >= 0

\* two createOrder calls interleaved and sold more of product 1 than there
\* was, and a refund of one of them has committed
C27_Witness ==
    /\ Len(orders) = MaxOrders
    /\ QtyOf(orderItems, 1, DOMAIN orderItems) > InitStock
    /\ \E o \in DOMAIN orders : orders[o].status = "refunded"
    /\ ret.op = "refundOrder" /\ ret.ok

\* C29 (SpecDelete): every order's coupon_id that is not null is the id of a
\* coupon that exists.  deleteCoupon of an id no coupon has returns false and
\* changes nothing; of a coupon an order references it only sets is_active
\* to false; of a coupon no order references it removes the row.
C29_DeleteCouponKeepsReferencedCoupons ==
    /\ [](\A o \in DOMAIN orders :
            orders[o].coupon_id # NULL => Val(orders[o].coupon_id) \in DOMAIN coupons)
    /\ [][ \A id \in CouponIdInputs :
             (ret'.op = "deleteCoupon" /\ deleteCoupon(id)) =>
                /\ UNCHANGED <<stock, couponSeq, orders, orderItems>>
                /\ id \notin DOMAIN coupons => (~ret'.ok /\ ret'.error = "false" /\ coupons' = coupons)
                /\ ~ret'.ok => coupons' = coupons
                /\ (ret'.ok /\ OrdersWithCoupon(id) # {}) =>
                      /\ DOMAIN coupons' = DOMAIN coupons
                      /\ ~coupons'[id].is_active
                      /\ \A c \in DOMAIN coupons \ {id} : coupons'[c] = coupons[c]
                      /\ coupons'[id] = [coupons[id] EXCEPT !.is_active = FALSE]
                /\ (ret'.ok /\ OrdersWithCoupon(id) = {}) =>
                      /\ DOMAIN coupons' = DOMAIN coupons \ {id}
                      /\ \A c \in DOMAIN coupons' : coupons'[c] = coupons[c] ]_vars

\* deleteCoupon returned true for a coupon that an order references, and the
\* coupon is still there, inactive
C29_Witness ==
    /\ ret.op = "deleteCoupon" /\ ret.ok
    /\ \E o \in DOMAIN orders :
          /\ orders[o].coupon_id # NULL
          /\ Val(orders[o].coupon_id) \in DOMAIN coupons
          /\ ~coupons[Val(orders[o].coupon_id)].is_active

\* C30 (SpecCart): a user's cart has at most one row per product.  addToCart
\* of a product that is in the cart adds the quantity to that row.  addToCart
\* and updateCartItem fail and leave the cart as it was when the quantity the
\* row would get is more than the product's stock_quantity at the call.
C30_CartRowsWithinStock ==
    /\ [](\A c, d \in DOMAIN cartItems :
            (cartItems[c].user_id = cartItems[d].user_id /\
             cartItems[c].product_id = cartItems[d].product_id) => c = d)
    /\ [][ \A input \in CartInputs :
             (ret'.op = "addToCart" /\ addToCart(input)) =>
                LET rows == SelectCartItem(cartItems, input.user_id, input.product_id)
                    had == IF rows = {} THEN 0
                           ELSE cartItems[CHOOSE c \in rows : TRUE].quantity
                IN  /\ ~ret'.ok => UNCHANGED cart
                    /\ (input.product_id \in ProductIds /\
                        had + input.quantity > stock[input.product_id])
                          => ~ret'.ok
                    /\ (ret'.ok /\ rows # {}) =>
                          /\ DOMAIN cartItems' = DOMAIN cartItems
                          /\ \A c \in DOMAIN cartItems :
                                cartItems'[c] =
                                    IF c \in rows
                                        THEN [cartItems[c] EXCEPT
                                                !.quantity = had + input.quantity]
                                        ELSE cartItems[c] ]_vars
    /\ [][ \A id \in DOMAIN cartItems, q \in CartQuantities :
             (ret'.op = "updateCartItem" /\ updateCartItem([id |-> id, quantity |-> q])) =>
                /\ ~ret'.ok => UNCHANGED cart
                /\ q > stock[cartItems[id].product_id] => ~ret'.ok ]_vars

\* addToCart just added one unit to the only row the cart ever had, which
\* it had created with one unit, and the row is within the stock of its
\* product
C30_Witness ==
    /\ ret.op = "addToCart" /\ ret.ok
    /\ cartSeq = 1
    /\ DOMAIN cartItems = {1}
    /\ cartItems[1].product_id = 2
    /\ cartItems[1].quantity = 2
    /\ cartItems[1].quantity <= stock[2]

============================================================================
